---- MODULE Spec2Model ----
(***************************************************************************)
(* A model of simpleprompt::SimplePrompt (src/SimplePrompt.hpp): the       *)
(* byte-at-a-time input loop, the line buffer edits with the terminal      *)
(* bytes they write, tab completion and the history cursor.                *)
(*                                                                         *)
(* Strings are sequences of byte codes.  The history cursor m_prev is a    *)
(* std::deque reverse iterator; it is modelled by its distance from        *)
(* rbegin(): 0 is rbegin() (the newest entry), Len(m_history) is rend().   *)
(***************************************************************************)
EXTENDS Integers, Sequences, FiniteSets, TLC

\* ---- key codes (the #defines of SimplePrompt.hpp) ----
SP_UP_ARROW == 65
SP_DOWN_ARROW == 66
SP_LEFT_ARROW == 68
SP_RIGHT_ARROW == 67
SP_CTRL_C == 3
SP_CTRL_E == 5
SP_CTRL_A == 1
SP_CTRL_K == 11
SP_ENTER == 10
SP_BACKSPACE == 127
SP_DELETE == 8
SP_TAB == 9
\* the escape marker and the CSI introducer tested by checkArrowCode
ESC == 27
CSI == 91
\* bytes written to the terminal by the handlers
BS == 8
SPACE == 32
NEWLINE == 10
\* codes <= 28 are not inserted (getInputString)
PRINTABLE_ABOVE == 28

\* what getchar returns when the read fails or the input has ended
EOF == -1

\* ---- bounds of the model ----
\* longest line a Char event may still extend (Spec)
MaxLen == 2
\* number of history entries after which no further line is finalized (Spec)
MaxHist == 1
\* number of addCommand calls before start() (Spec)
MaxCommands == 1
\* number of history entries after which no further line is finalized (SpecHist)
MaxRecall == 3
\* longest line a Char event may still extend (SpecTab)
TabMaxLen == 2
\* number of addCommand calls before start() (SpecTab)
TabMaxCommands == 2
\* the observer ups counts consecutive ArrowUp events up to this value
UpsCap == MaxRecall + 1

\* printable bytes the user types in Spec: 'a', 'b'
Chars == {97, 98}
\* the string the caller may register with addCommand in Spec: "abb"
CommandPool == {<<97, 98, 98>>}
\* printable bytes the user types in SpecHist: 'a', 'b', 'c'
HistChars == {97, 98, 99}
\* printable bytes the user types in SpecTab: 'e', 'm', 'r', 'z'
TabChars == {101, 109, 114, 122}
\* the strings the caller may register in SpecTab: "remove", "mkdir", "re"
TabPool == {<<114, 101, 109, 111, 118, 101>>, <<109, 107, 100, 105, 114>>, <<114, 101>>}
\* bytes <= 28 with no case label (0, Ctrl-B)
OtherCtl == {0, 2}
\* bytes that may follow the escape marker other than '[': Ctrl-C, 'O'
EscSecond == {SP_CTRL_C, 79}
\* bytes that may follow ESC '[': the arrows, Ctrl-C, 'H'
EscThird == {SP_UP_ARROW, SP_DOWN_ARROW, SP_LEFT_ARROW, SP_RIGHT_ARROW,
             SP_CTRL_C, 72}

VARIABLES
    pc,          \* "constructed" | "input" (blocked in getchar at line 348) | "exited"
    term,        \* terminal mode: "cooked" | "raw"
    m_commands,  \* command dictionary
    m_history,   \* finalized non-empty lines, oldest first
    m_prev,      \* history cursor as distance from rbegin(); -1: never assigned
    toReturn,    \* the line buffer of the running getInputString
    cursorPos,   \* the logical cursor of the running getInputString
    out,         \* bytes written to the terminal by the last event
    printed,     \* arguments m_printer was called with during the last event
    called,      \* arguments m_comCallback was called with, in order
    read,        \* observer: the bytes the last event consumed
    pre,         \* observer: toReturn, cursorPos, m_prev, ups and m_history before the last event
    ups,         \* observer: consecutive ArrowUp events since the cycle began, -1 once broken
    typed,       \* observer: the cycle so far is typed Char events then erased
    erased,      \*           Backspace/Delete events; typed = -1 once broken
    lastFinal    \* observer: how the previous cycle ended: "none" | "empty" | "line"

vars == <<pc, term, m_commands, m_history, m_prev, toReturn, cursorPos,
          out, printed, called, read, pre, ups, typed, erased, lastFinal>>

\* the prompt printed at the top of loop() (a constructor argument)
m_prompt == <<36, 62, 32>>

Min(a, b) == IF a < b THEN a ELSE b

\* n copies of byte b
Rep(b, n) == [i \in 1..n |-> b]

\* std::string(begin + from, end)
Tail_(s, from) == SubSeq(s, from + 1, Len(s))
\* std::string(begin, begin + n)
Head_(s, n) == SubSeq(s, 1, n)

\* ---- the handlers, as functions of the edit state ----
\* An edit state is [cursorPos, toReturn, out, printed]: the two reference
\* parameters of the handlers plus what has been written so far.

Emit(s, bytes) == [s EXCEPT !.out = @ \o bytes]

\* removeLastChar: "\b " then "\b"
removeLastChar(s) == Emit(s, <<BS, SPACE, BS>>)

RECURSIVE removeLastCharTimes(_, _)
removeLastCharTimes(s, n) ==
    IF n = 0 THEN s ELSE removeLastCharTimes(removeLastChar(s), n - 1)

\* handleCharInsert with the character always appended at the end of the line
handleCharInsert_AtEnd(s, ch) ==
    [Emit(s, <<ch>>) EXCEPT !.toReturn = Append(@, ch), !.cursorPos = @ + 1]

handleCharInsert(s, ch) ==
    LET remaining == Tail_(s.toReturn, s.cursorPos)
        s1 == Emit(s, <<ch>>)
        s2 == IF s.toReturn # <<>>
              THEN [Emit(s1, remaining \o <<SPACE, BS>> \o Rep(BS, Len(remaining)))
                       EXCEPT !.toReturn = Head_(s.toReturn, s.cursorPos) \o <<ch>> \o remaining]
              ELSE [s1 EXCEPT !.toReturn = Append(@, ch)]
    IN  [s2 EXCEPT !.cursorPos = @ + 1]

\* handleBackspace without --cursorPos taking effect for the caller
handleBackspace_KeepsCursor(s) ==
    IF s.cursorPos > 0
    THEN LET cp == s.cursorPos - 1
             remaining == Tail_(s.toReturn, cp + 1)
         IN  [Emit(removeLastChar(s), remaining \o <<SPACE, BS>> \o Rep(BS, Len(remaining)))
                 EXCEPT !.toReturn = Head_(s.toReturn, cp) \o remaining]
    ELSE s

\* handleBackspace that removes the last character of the line instead of the
\* one before the cursor
handleBackspace_PopBack(s) ==
    IF s.cursorPos > 0
    THEN LET s1 == removeLastChar(s)
             cp == s.cursorPos - 1
             remaining == Tail_(s.toReturn, cp + 1)
         IN  [Emit(s1, remaining \o <<SPACE, BS>> \o Rep(BS, Len(remaining)))
                 EXCEPT !.cursorPos = cp,
                        !.toReturn = Head_(s.toReturn, Len(s.toReturn) - 1)]
    ELSE s

handleBackspace(s) ==
    IF s.cursorPos > 0
    THEN LET s1 == removeLastChar(s)
             cp == s.cursorPos - 1
             copy == Head_(s.toReturn, cp)
             remaining == Tail_(s.toReturn, cp + 1)
         IN  [Emit(s1, remaining \o <<SPACE, BS>> \o Rep(BS, Len(remaining)))
                 EXCEPT !.cursorPos = cp, !.toReturn = copy \o remaining]
    ELSE s

handleCtrlA(s) ==
    [Emit(s, Rep(BS, s.cursorPos)) EXCEPT !.cursorPos = 0]

handleCtrlE(s) ==
    LET s1 == handleCtrlA(s)
    IN  [Emit(s1, s.toReturn) EXCEPT !.cursorPos = s1.cursorPos + Len(s.toReturn)]

\* handleCtrlK without in.swap(copy): the screen is cleared, the line is kept
handleCtrlK_ScreenOnly(s) ==
    LET dist == Len(s.toReturn) - s.cursorPos
    IN  Emit(s, Rep(SPACE, dist) \o Rep(BS, dist))

handleCtrlK(s) ==
    LET dist == Len(s.toReturn) - s.cursorPos
    IN  [Emit(s, Rep(SPACE, dist) \o Rep(BS, dist))
            EXCEPT !.toReturn = Head_(s.toReturn, s.cursorPos)]

\* handleLeftArrow without the cursorPos > 0 test
handleLeftArrow_Unguarded(s) ==
    [Emit(s, <<BS>>) EXCEPT !.cursorPos = @ - 1]

handleLeftArrow(s) ==
    IF s.cursorPos > 0
    THEN [Emit(s, <<BS>>) EXCEPT !.cursorPos = @ - 1]
    ELSE s

RECURSIVE handleLeftArrowTimes(_, _)
handleLeftArrowTimes(s, n) ==
    IF n = 0 THEN s ELSE handleLeftArrowTimes(handleLeftArrow(s), n - 1)

handleRightArrow(s) ==
    IF s.cursorPos < Len(s.toReturn)
    THEN [Emit(s, <<s.toReturn[s.cursorPos + 1]>>) EXCEPT !.cursorPos = @ + 1]
    ELSE s

\* the prefix test that accepts only commands longer than the line
IsPrefixOf_Proper(command, it) ==
    /\ Len(command) < Len(it)
    /\ Head_(it, Len(command)) = command

\* it.substr(0, command.length()) == command
IsPrefixOf(command, it) ==
    Head_(it, Min(Len(command), Len(it))) = command

RECURSIVE tabScan(_, _, _)
tabScan(commands, i, command) ==
    IF i > Len(commands) THEN command
    ELSE IF IsPrefixOf(command, commands[i]) THEN commands[i]
    ELSE tabScan(commands, i + 1, command)

\* tabCompleteCommand returning the last matching command instead of the first
RECURSIVE tabScanBack(_, _, _)
tabScanBack(commands, i, command) ==
    IF i < 1 THEN command
    ELSE IF IsPrefixOf(command, commands[i]) THEN commands[i]
    ELSE tabScanBack(commands, i - 1, command)

tabCompleteCommand_LastMatch(commands, command) ==
    tabScanBack(commands, Len(commands), command)

tabCompleteCommand(commands, command) == tabScan(commands, 1, command)

handleTabKey(commands, s) ==
    IF s.toReturn = <<>>
    THEN s
    ELSE LET lenBefore == Len(s.toReturn)
             completed == tabCompleteCommand(commands, s.toReturn)
             s1 == [s EXCEPT !.toReturn = completed, !.cursorPos = Len(completed)]
         IN  Emit(removeLastCharTimes(s1, lenBefore), completed)

\* *m_prev for a cursor at distance d from rbegin()
Deref(history, d) == history[Len(history) - d]

\* showEntry without cursorPos = toReturn.length()
showEntry_KeepsCursor(s, entry) ==
    LET s1 == IF s.toReturn # <<>> THEN removeLastCharTimes(s, Len(s.toReturn)) ELSE s
    IN  Emit([s1 EXCEPT !.toReturn = entry], entry)

\* lines 285-293 and 306-314: wipe the line, show the entry
showEntry(s, entry) ==
    LET s1 == IF s.toReturn # <<>> THEN removeLastCharTimes(s, Len(s.toReturn)) ELSE s
    IN  Emit([s1 EXCEPT !.toReturn = entry, !.cursorPos = Len(entry)], entry)

\* handleHistory whose ArrowUp never advances m_prev
handleHistory_NoAdvance(history, h, up) ==
    IF history = <<>> THEN h
    ELSE IF up
    THEN IF h.prev # Len(history)
         THEN [s |-> showEntry(h.s, Deref(history, h.prev)), prev |-> h.prev]
         ELSE h
    ELSE IF h.prev # 0
         THEN LET p == h.prev - 1
              IN  [s |-> showEntry(h.s, Deref(history, p)),
                   prev |-> IF p = 0 THEN p + 1 ELSE p]
         ELSE h

\* handleHistory whose ArrowDown leaves m_prev at rbegin() on reaching it
handleHistory_DownIdle(history, h, up) ==
    IF history = <<>> THEN h
    ELSE IF up
    THEN IF h.prev # Len(history)
         THEN [s |-> showEntry(h.s, Deref(history, h.prev)),
               prev |-> IF h.prev < Len(history) - 1 THEN h.prev + 1 ELSE h.prev]
         ELSE h
    ELSE IF h.prev # 0
         THEN LET p == h.prev - 1
              IN  [s |-> showEntry(h.s, Deref(history, p)), prev |-> p]
         ELSE h

\* handleHistory whose ArrowUp advances m_prev without the boundary test
handleHistory_NoClamp(history, h, up) ==
    IF history = <<>> THEN h
    ELSE IF up
    THEN IF h.prev # Len(history)
         THEN [s |-> showEntry(h.s, Deref(history, h.prev)), prev |-> h.prev + 1]
         ELSE h
    ELSE IF h.prev # 0
         THEN LET p == h.prev - 1
              IN  [s |-> showEntry(h.s, Deref(history, p)),
                   prev |-> IF p = 0 THEN p + 1 ELSE p]
         ELSE h

\* handleHistory; h is [s, prev]
handleHistory(history, h, up) ==
    IF history = <<>> THEN h
    ELSE IF up
    THEN IF h.prev # Len(history)
         THEN [s |-> showEntry(h.s, Deref(history, h.prev)),
               prev |-> IF h.prev < Len(history) - 1 THEN h.prev + 1 ELSE h.prev]
         ELSE h
    ELSE IF h.prev # 0
         THEN LET p == h.prev - 1
              IN  [s |-> showEntry(h.s, Deref(history, p)),
                   prev |-> IF p = 0 THEN p + 1 ELSE p]
         ELSE h

\* lines 391-402: the Char branch of getInputString, with the printer of the
\* example program (it writes its argument to the terminal)
charBranch(s, c) ==
    LET s1 == handleCharInsert(s, c)
        remCursorPos == Len(s1.toReturn) - s1.cursorPos
        s2 == handleCtrlE(s1)
        s3 == Emit(s2, Rep(BS, Len(s2.toReturn)))
        s4 == [Emit(s3, s3.toReturn) EXCEPT !.printed = Append(@, s3.toReturn)]
    IN  handleLeftArrowTimes(s4, remCursorPos)

\* checkArrowCode(27) when the following bytes are b2 and b3
checkArrowCode(code, b2, b3) ==
    IF code = ESC /\ b2 = CSI THEN b3 ELSE -1

\* char c = ::getchar(); static_cast<int>(c): the int is narrowed to a char
\* and widened again; whether char is signed is the build's choice
ToCharCode(b, signedChar) ==
    LET u == b % 256
    IN  IF signedChar /\ u >= 128 THEN u - 256 ELSE u

\* The terminal's cursor column after the bytes from position i on are
\* written at column col (columns are counted from the end of the prompt, so
\* the left margin is -Len(m_prompt)): "\b" moves one column left unless at
\* the margin, "\n" returns to the margin, any other byte advances by one.
RECURSIVE Render(_, _, _)
Render(col, bytes, i) ==
    IF i > Len(bytes) THEN col
    ELSE Render(IF bytes[i] = BS THEN (IF col > -Len(m_prompt) THEN col - 1 ELSE col)
                ELSE IF bytes[i] = NEWLINE THEN -Len(m_prompt)
                ELSE col + 1,
                bytes, i + 1)

\* ---- the state machine ----
Cur == [cursorPos |-> cursorPos, toReturn |-> toReturn, out |-> <<>>, printed |-> <<>>]

Snapshot == [toReturn |-> toReturn, cursorPos |-> cursorPos, m_prev |-> m_prev,
             ups |-> ups, m_history |-> m_history]

Init ==
    /\ pc = "constructed"
    /\ term = "cooked"
    /\ m_commands = <<>>
    /\ m_history = <<>>
    /\ m_prev = -1
    /\ toReturn = <<>>
    /\ cursorPos = 0
    /\ out = <<>>
    /\ printed = <<>>
    /\ called = <<>>
    /\ read = <<>>
    /\ ups = -1
    /\ typed = -1
    /\ erased = 0
    /\ lastFinal = "none"
    /\ pre = Snapshot

\* the observers of an event that is neither a Char, a Backspace/Delete nor
\* an ArrowUp
Breaks ==
    /\ ups' = -1
    /\ typed' = -1
    /\ erased' = 0

\* an event of getInputString that consumed bytes and left the edit state s
\* and the history cursor prev
Event(bytes, s, prev) ==
    /\ toReturn' = s.toReturn
    /\ cursorPos' = s.cursorPos
    /\ out' = s.out
    /\ printed' = s.printed
    /\ m_prev' = prev
    /\ read' = bytes
    /\ pre' = Snapshot
    /\ UNCHANGED <<pc, term, m_commands, m_history, called, lastFinal>>

\* addCommand(com), at most max times
AddCommand(com, max) ==
    /\ pc = "constructed"
    /\ Len(m_commands) < max
    /\ m_commands' = Append(m_commands, com)
    /\ UNCHANGED <<pc, term, m_history, m_prev, toReturn, cursorPos, out,
                   printed, called, read, pre, ups, typed, erased, lastFinal>>

\* what loop() and getInputString do before the first getchar of a cycle
NewCycle(bytes) ==
    /\ toReturn' = <<>>
    /\ cursorPos' = 0
    /\ out' = bytes \o m_prompt
    /\ printed' = <<>>
    /\ pre' = Snapshot
    /\ ups' = 0
    /\ typed' = 0
    /\ erased' = 0

\* start(): setupTerminal, then loop() prints the prompt and getInputString
\* blocks in getchar
Start ==
    /\ pc = "constructed"
    /\ pc' = "input"
    /\ term' = "raw"
    /\ read' = <<>>
    /\ NewCycle(<<>>)
    /\ UNCHANGED <<m_commands, m_history, m_prev, called, lastFinal>>

\* loop() skipping push_back for a line equal to the newest entry
EnterLine_NoDup(maxHist) ==
    /\ pc = "input"
    /\ toReturn # <<>>
    /\ Len(m_history) < maxHist
    /\ called' = Append(called, toReturn)
    /\ m_history' = IF m_history # <<>> /\ m_history[Len(m_history)] = toReturn
                    THEN m_history
                    ELSE Append(m_history, toReturn)
    /\ m_prev' = 0
    /\ read' = <<SP_ENTER>>
    /\ NewCycle(<<NEWLINE>>)
    /\ lastFinal' = "line"
    /\ UNCHANGED <<pc, term, m_commands>>

\* byte 10 with a non-empty line: getInputString returns; loop() runs the
\* callback, appends, resets m_prev and starts the next cycle.  No line is
\* finalized once the history holds maxHist entries.
EnterLine(maxHist) ==
    /\ pc = "input"
    /\ toReturn # <<>>
    /\ Len(m_history) < maxHist
    /\ called' = Append(called, toReturn)
    /\ m_history' = Append(m_history, toReturn)
    /\ m_prev' = 0
    /\ read' = <<SP_ENTER>>
    /\ NewCycle(<<NEWLINE>>)
    /\ lastFinal' = "line"
    /\ UNCHANGED <<pc, term, m_commands>>

\* an empty line handled by loop() as if it were not empty
EnterEmpty_Records ==
    /\ pc = "input"
    /\ toReturn = <<>>
    /\ called' = Append(called, toReturn)
    /\ m_history' = Append(m_history, toReturn)
    /\ m_prev' = 0
    /\ read' = <<SP_ENTER>>
    /\ NewCycle(<<NEWLINE>>)
    /\ lastFinal' = "empty"
    /\ UNCHANGED <<pc, term, m_commands>>

\* byte 10 with an empty line: loop() skips the body of its if
EnterEmpty ==
    /\ pc = "input"
    /\ toReturn = <<>>
    /\ read' = <<SP_ENTER>>
    /\ NewCycle(<<NEWLINE>>)
    /\ lastFinal' = "empty"
    /\ UNCHANGED <<pc, term, m_commands, m_history, m_prev, called>>

\* byte 3 read at line 348: exit(0)
CtrlC ==
    /\ pc = "input"
    /\ pc' = "exited"
    /\ out' = <<>>
    /\ printed' = <<>>
    /\ read' = <<SP_CTRL_C>>
    /\ pre' = Snapshot
    /\ Breaks
    /\ UNCHANGED <<term, m_commands, m_history, m_prev, toReturn, cursorPos,
                   called, lastFinal>>

CtrlA == pc = "input" /\ Event(<<SP_CTRL_A>>, handleCtrlA(Cur), m_prev) /\ Breaks

CtrlE == pc = "input" /\ Event(<<SP_CTRL_E>>, handleCtrlE(Cur), m_prev) /\ Breaks

CtrlK == pc = "input" /\ Event(<<SP_CTRL_K>>, handleCtrlK(Cur), m_prev) /\ Breaks

\* bytes 127 and 8 share one case
Backspace(b) ==
    /\ pc = "input"
    /\ b \in {SP_BACKSPACE, SP_DELETE}
    /\ Event(<<b>>, handleBackspace(Cur), m_prev)
    /\ ups' = -1
    /\ typed' = IF typed >= 0 /\ erased < typed THEN typed ELSE -1
    /\ erased' = IF typed >= 0 /\ erased < typed THEN erased + 1 ELSE 0

Tab == pc = "input" /\ Event(<<SP_TAB>>, handleTabKey(m_commands, Cur), m_prev) /\ Breaks

\* a byte > 28 with no case label, while the line is shorter than maxLen
Char(c, maxLen) ==
    /\ pc = "input"
    /\ checkArrowCode(c, 0, 0) = -1
    /\ c > PRINTABLE_ABOVE
    /\ Len(toReturn) < maxLen
    /\ Event(<<c>>, charBranch(Cur, c), m_prev)
    /\ ups' = -1
    /\ typed' = IF typed >= 0 /\ erased = 0 THEN typed + 1 ELSE -1
    /\ erased' = 0

\* a byte > 28 with no case label typed into an empty line: the user of
\* SpecHist enters one-character lines
CharLine(c) ==
    /\ toReturn = <<>>
    /\ Char(c, Len(toReturn) + 1)

\* a byte <= 28 with no case label: checkArrowCode returns -1, nothing is done
OtherControl(c) ==
    /\ pc = "input"
    /\ checkArrowCode(c, 0, 0) = -1
    /\ ~(c > PRINTABLE_ABOVE)
    /\ Event(<<c>>, Cur, m_prev)
    /\ Breaks

\* getchar at line 348 returns EOF: the value is narrowed to a char and takes
\* the default branch like any byte.  With a signed char it is -1 and is
\* dropped; with an unsigned char it is 255 and is inserted (while the line
\* is shorter than maxLen).
ReadEOF(signedChar, maxLen) ==
    LET intCode == ToCharCode(EOF, signedChar)
    IN  /\ pc = "input"
        /\ checkArrowCode(intCode, 0, 0) = -1
        /\ IF intCode > PRINTABLE_ABOVE
           THEN /\ Len(toReturn) < maxLen
                /\ Event(<<EOF>>, charBranch(Cur, intCode), m_prev)
           ELSE Event(<<EOF>>, Cur, m_prev)
        /\ Breaks

\* Dispatch whose last arrow test is missing: every other final byte is taken
\* for ArrowRight
Dispatch_UnknownIsRight(bytes, ac) ==
    IF ac = SP_UP_ARROW
    THEN LET h == handleHistory(m_history, [s |-> Cur, prev |-> m_prev], TRUE)
         IN  /\ Event(bytes, h.s, h.prev)
             /\ ups' = IF ups >= 0 THEN Min(ups + 1, UpsCap) ELSE -1
             /\ typed' = -1
             /\ erased' = 0
    ELSE IF ac = SP_DOWN_ARROW
    THEN LET h == handleHistory(m_history, [s |-> Cur, prev |-> m_prev], FALSE)
         IN  Event(bytes, h.s, h.prev) /\ Breaks
    ELSE IF ac = SP_LEFT_ARROW THEN Event(bytes, handleLeftArrow(Cur), m_prev) /\ Breaks
    ELSE IF ac > -1 THEN Event(bytes, handleRightArrow(Cur), m_prev) /\ Breaks
    ELSE IF ESC > PRINTABLE_ABOVE THEN Event(bytes, charBranch(Cur, ESC), m_prev) /\ Breaks
    ELSE Event(bytes, Cur, m_prev) /\ Breaks

\* the default branch for byte 27 when checkArrowCode consumed bytes and
\* returned ac
Dispatch(bytes, ac) ==
    IF ac = SP_UP_ARROW
    THEN LET h == handleHistory(m_history, [s |-> Cur, prev |-> m_prev], TRUE)
         IN  /\ Event(bytes, h.s, h.prev)
             /\ ups' = IF ups >= 0 THEN Min(ups + 1, UpsCap) ELSE -1
             /\ typed' = -1
             /\ erased' = 0
    ELSE IF ac = SP_DOWN_ARROW
    THEN LET h == handleHistory(m_history, [s |-> Cur, prev |-> m_prev], FALSE)
         IN  Event(bytes, h.s, h.prev) /\ Breaks
    ELSE IF ac = SP_LEFT_ARROW THEN Event(bytes, handleLeftArrow(Cur), m_prev) /\ Breaks
    ELSE IF ac = SP_RIGHT_ARROW THEN Event(bytes, handleRightArrow(Cur), m_prev) /\ Breaks
    ELSE IF ac > -1 THEN Event(bytes, Cur, m_prev) /\ Breaks
    ELSE IF ESC > PRINTABLE_ABOVE THEN Event(bytes, charBranch(Cur, ESC), m_prev) /\ Breaks
    ELSE Event(bytes, Cur, m_prev) /\ Breaks

\* byte 27, then a byte other than 91: checkArrowCode consumes both
EscapeShort(b2) ==
    /\ pc = "input"
    /\ b2 # CSI
    /\ Dispatch(<<ESC, b2>>, checkArrowCode(ESC, b2, 0))

\* bytes 27, 91, b3: checkArrowCode consumes all three
EscapeCSI(b3) ==
    /\ pc = "input"
    /\ Dispatch(<<ESC, CSI, b3>>, checkArrowCode(ESC, CSI, b3))

Next ==
    \/ \E com \in CommandPool : AddCommand(com, MaxCommands)
    \/ Start
    \/ EnterLine(MaxHist)
    \/ EnterEmpty
    \/ CtrlC
    \/ CtrlA
    \/ CtrlE
    \/ CtrlK
    \/ \E b \in {SP_BACKSPACE, SP_DELETE} : Backspace(b)
    \/ Tab
    \/ \E c \in Chars : Char(c, MaxLen)
    \/ \E c \in OtherCtl : OtherControl(c)
    \/ \E b2 \in EscSecond : EscapeShort(b2)
    \/ \E b3 \in EscThird : EscapeCSI(b3)

Spec == Init /\ [][Next]_vars

\* sessions of one-character lines with no registered command, in which the
\* history grows to MaxRecall entries
NextHist ==
    \/ Start
    \/ EnterLine(MaxRecall)
    \/ EnterEmpty
    \/ CtrlC
    \/ \E b \in {SP_BACKSPACE, SP_DELETE} : Backspace(b)
    \/ \E c \in HistChars : CharLine(c)
    \/ \E b2 \in EscSecond : EscapeShort(b2)
    \/ \E b3 \in EscThird : EscapeCSI(b3)

SpecHist == Init /\ [][NextHist]_vars

\* sessions in which the caller registers commands of TabPool in any order and
\* the user types, moves left and presses Tab within one cycle
NextTab ==
    \/ \E com \in TabPool : AddCommand(com, TabMaxCommands)
    \/ Start
    \/ \E c \in TabChars : Char(c, TabMaxLen)
    \/ Tab
    \/ EscapeCSI(SP_LEFT_ARROW)

SpecTab == Init /\ [][NextTab]_vars

\* sessions on an input stream that fails: getchar returns EOF at the top of
\* the loop or inside checkArrowCode, in a build with signed or unsigned char
NextEof ==
    \/ Start
    \/ EnterLine(MaxHist)
    \/ EnterEmpty
    \/ CtrlC
    \/ \E b \in {SP_BACKSPACE, SP_DELETE} : Backspace(b)
    \/ \E c \in Chars : Char(c, MaxLen)
    \/ \E signedChar \in BOOLEAN : ReadEOF(signedChar, MaxLen)
    \/ EscapeShort(EOF)
    \/ \E b3 \in {SP_LEFT_ARROW, EOF} : EscapeCSI(b3)

SpecEof == Init /\ [][NextEof]_vars

\* ---- what the observers say about the last event ----
IsEnter == read = <<SP_ENTER>>
IsBackspace == read = <<SP_BACKSPACE>> \/ read = <<SP_DELETE>>
IsTab == read = <<SP_TAB>>
IsChar == Len(read) = 1 /\ read[1] > PRINTABLE_ABOVE /\ read[1] # SP_BACKSPACE
IsUp == read = <<ESC, CSI, SP_UP_ARROW>>
IsDown == read = <<ESC, CSI, SP_DOWN_ARROW>>
IsLeft == read = <<ESC, CSI, SP_LEFT_ARROW>>
IsRight == read = <<ESC, CSI, SP_RIGHT_ARROW>>

\* the k-th most recent history entry
KthMostRecent(k) == m_history[Len(m_history) - k + 1]

\* the lines "a", "b", "c" finalized in this order
HistoryABC == << <<97>>, <<98>>, <<99>> >>

\* ---- C1 ----
\* C1: in a cycle that starts right after a non-empty line was finalized, the
\* k-th consecutive ArrowUp shows the k-th most recent history entry while
\* k <= n and the oldest entry from then on; with the history "a", "b", "c"
\* an ArrowDown after four ArrowUps shows "b".
C1_HistoryRecallOrder ==
    /\ (lastFinal = "line" /\ ups >= 1)
          => toReturn = KthMostRecent(Min(ups, Len(m_history)))
    /\ (lastFinal = "line" /\ m_history = HistoryABC /\ ups = 4)
          => toReturn = <<97>>
    /\ (lastFinal = "line" /\ m_history = HistoryABC /\ IsDown /\ pre.ups = 4)
          => toReturn = <<98>>

C1_Witness ==
    /\ lastFinal = "line"
    /\ m_history = HistoryABC
    /\ IsDown
    /\ pre.ups = 4
    /\ pre.toReturn = <<97>>
    /\ toReturn = <<98>>

\* ---- C2 ----
\* C2: an Enter read while the line is empty leaves the history and the list
\* of callback invocations as they were, and the session waits for input on
\* an empty line with the cursor at 0.
C2_EmptyLineNotRecorded ==
    [][(pc = "input" /\ toReturn = <<>> /\ read' = <<SP_ENTER>>)
          => /\ UNCHANGED <<m_history, called, m_prev>>
             /\ pc' = "input"
             /\ toReturn' = <<>>
             /\ cursorPos' = 0]_vars

C2_Witness ==
    /\ pc = "input"
    /\ IsEnter
    /\ lastFinal = "empty"
    /\ pre.toReturn = <<>>
    /\ m_history # <<>>
    /\ called = m_history

\* ---- C3 ----
\* C3: whenever the bytes consumed by an event include the Interrupt byte, be
\* it the first byte or a byte following the escape marker, the process has
\* exited.
C3_InterruptTerminates ==
    (\E i \in DOMAIN read : read[i] = SP_CTRL_C) => pc = "exited"

\* ---- C4 ----
\* C4: after a Char event on a line of length n with the cursor at c, the
\* line has length n + 1, holds the new character at offset c, the cursor is
\* at c + 1, and the characters before and after offset c are those that
\* were before and from offset c, in the same order.
C4_InsertAtCursor ==
    IsChar =>
        LET c == pre.cursorPos
            n == Len(pre.toReturn)
        IN  /\ 0 <= c /\ c <= n
            /\ Len(toReturn) = n + 1
            /\ toReturn[c + 1] = read[1]
            /\ cursorPos = c + 1
            /\ SubSeq(toReturn, 1, c) = SubSeq(pre.toReturn, 1, c)
            /\ SubSeq(toReturn, c + 2, n + 1) = SubSeq(pre.toReturn, c + 1, n)

C4_Witness ==
    /\ IsChar
    /\ pre.toReturn # <<>>
    /\ pre.cursorPos < Len(pre.toReturn)
    /\ toReturn[pre.cursorPos + 1] # toReturn[pre.cursorPos + 2]

\* ---- C5 ----
\* C5: when a cycle has consisted of k Char events followed by k
\* Backspace/Delete events, the line is empty and the cursor is at 0.
C5_InsertBackspaceRoundTrip ==
    (typed >= 0 /\ erased = typed) => (toReturn = <<>> /\ cursorPos = 0)

C5_Witness ==
    /\ typed = 2
    /\ erased = 2
    /\ IsBackspace

\* ---- C6 ----
NoOp ==
    /\ toReturn = pre.toReturn
    /\ cursorPos = pre.cursorPos
    /\ out = <<>>

\* C6: a Backspace/Delete or an ArrowLeft with the cursor at 0, and an
\* ArrowRight with the cursor at the end of the line, leave the line and the
\* cursor as they were and write nothing to the terminal.
C6_BoundaryEditsAreNoOps ==
    /\ (IsBackspace /\ pre.cursorPos = 0) => NoOp
    /\ (IsLeft /\ pre.cursorPos = 0) => NoOp
    /\ (IsRight /\ pre.cursorPos = Len(pre.toReturn)) => NoOp

C6_Witness ==
    /\ IsLeft
    /\ pre.cursorPos = 0
    /\ pre.toReturn # <<>>

\* ---- C7 ----
\* t is a prefix of c
HasPrefix(t, c) ==
    /\ Len(t) <= Len(c)
    /\ \A k \in 1..Len(t) : c[k] = t[k]

\* the positions of the registered commands that have t as a prefix
Matching(t) == {i \in 1..Len(m_commands) : HasPrefix(t, m_commands[i])}

StrRemove == <<114, 101, 109, 111, 118, 101>>
StrMkdir == <<109, 107, 100, 105, 114>>

\* C7: after a Tab on a non-empty line t that is a prefix of some command,
\* the line is the first such command in registration order and the cursor
\* is at its end; after a Tab on an empty line, or on a line that is a prefix
\* of no command, the line is t.  With the commands "remove", "mkdir":
\* "re" gives "remove", "zz" gives "zz", "" gives "".
C7_TabCompletion ==
    IsTab =>
        LET t == pre.toReturn
            M == Matching(t)
        IN  /\ IF t # <<>> /\ M # {}
               THEN /\ \E i \in M : /\ \A j \in M : i <= j
                                     /\ toReturn = m_commands[i]
                    /\ cursorPos = Len(toReturn)
               ELSE toReturn = t
            /\ m_commands = <<StrRemove, StrMkdir>> =>
                  /\ t = <<114, 101>> => toReturn = StrRemove
                  /\ t = <<122, 122>> => toReturn = <<122, 122>>
                  /\ t = <<>> => toReturn = <<>>

C7_Witness ==
    /\ IsTab
    /\ m_commands = <<StrRemove, StrMkdir>>
    /\ pre.toReturn = <<114, 101>>
    /\ toReturn = StrRemove
    /\ cursorPos = 6

\* ---- C8 ----
\* C8: the cursor is never negative and never beyond the end of the line.
C8_CursorBound ==
    0 <= cursorPos /\ cursorPos <= Len(toReturn)

C8_Witness ==
    /\ IsUp
    /\ pre.cursorPos > 0
    /\ pre.cursorPos < Len(pre.toReturn)
    /\ cursorPos = Len(toReturn)
    /\ toReturn # pre.toReturn

\* ---- C9 ----
\* C9: the first ArrowUp of every cycle shows the most recent history entry.
C9_FirstUpShowsNewest ==
    (ups = 1 /\ m_history # <<>>) => toReturn = KthMostRecent(1)

\* ---- C10 ----
\* C10 as claimed: an ArrowDown with the cursor not at the newest entry shows
\* the entry one step newer, and when that entry is the newest one the cursor
\* is back at the idle position rbegin().
C10_DownResetsToIdle ==
    (IsDown /\ m_history # <<>> /\ pre.m_prev > 0)
        => /\ toReturn = Deref(m_history, pre.m_prev - 1)
           /\ (pre.m_prev = 1 => m_prev = 0)

\* C10 as amended: an ArrowDown with the cursor not at the newest entry shows
\* the entry one step newer and leaves the cursor there, except that on
\* reaching the newest entry the cursor is moved one step older again, so that
\* the next ArrowUp shows the second most recent entry.
C10_DownParksOneOlder ==
    /\ [](  (IsDown /\ m_history # <<>> /\ pre.m_prev > 0)
              => /\ toReturn = Deref(m_history, pre.m_prev - 1)
                 /\ m_prev = IF pre.m_prev = 1 THEN 1 ELSE pre.m_prev - 1)
    /\ [][(IsDown /\ pre.m_prev = 1 /\ read' = <<ESC, CSI, SP_UP_ARROW>>)
              => toReturn' = KthMostRecent(2)]_vars

C10_Witness ==
    /\ IsDown
    /\ pre.m_prev = 1
    /\ m_prev = 1
    /\ Len(m_history) = 3
    /\ toReturn = KthMostRecent(1)
    /\ KthMostRecent(1) # KthMostRecent(2)

\* ---- C11 ----
\* C11: when the process has exited, the terminal is back in the mode it had
\* before start().
C11_TerminalRestoredOnExit ==
    pc = "exited" => term = "cooked"

\* ---- C12 ----
\* C12: whenever an event met a failed read (EOF), at the top of the loop or
\* after the escape marker, the process has exited.
C12_ReadFailureIsFatal ==
    (\E i \in DOMAIN read : read[i] = EOF) => pc = "exited"

\* ---- C13 ----
\* C13: after every event of a cycle that changed the line, the printer has
\* been called exactly once during that event, with the new line.
C13_PrinterAfterEveryEdit ==
    (pc = "input" /\ read # <<>> /\ ~IsEnter /\ toReturn # pre.toReturn)
        => printed = <<toReturn>>

\* ---- C14 ----
\* C14: the history holds no empty line and equals the sequence of arguments
\* the callback was invoked with; an Enter on a non-empty line appended that
\* line to the history as it was before, and every other event left the
\* history as it was.
C14_HistoryMirrorsFinalization ==
    /\ called = m_history
    /\ \A i \in DOMAIN m_history : m_history[i] # <<>>
    /\ IF IsEnter /\ pre.toReturn # <<>>
       THEN m_history = Append(pre.m_history, pre.toReturn)
       ELSE m_history = pre.m_history

C14_Witness ==
    /\ IsEnter
    /\ Len(m_history) = 3
    /\ pre.toReturn = m_history[3]
    /\ m_history[2] = m_history[3]
    /\ m_history[1] # m_history[2]
    /\ pre.m_prev > 0

\* ---- C15 ----
\* C15: an event that starts with the terminal's cursor at the logical cursor
\* (at the left margin for start()) ends with the terminal's cursor at the
\* logical cursor; the session starts in this state, so the two agree after
\* every event.
C15_ScreenCursorInSync ==
    pc = "input" =>
        Render(IF read = <<>> THEN -Len(m_prompt) ELSE pre.cursorPos, out, 1) = cursorPos

\* ---- C16 ----
\* the bytes of the last event are none of the recognized inputs: one byte
\* <= 28 without a case label, ESC and a byte other than '[', or ESC '[' and a
\* byte that is not an arrow's final byte
Unrecognized ==
    \/ /\ Len(read) = 1
       /\ read[1] <= PRINTABLE_ABOVE
       /\ read[1] \notin {SP_CTRL_A, SP_CTRL_C, SP_CTRL_E, SP_DELETE, SP_TAB,
                          SP_ENTER, SP_CTRL_K, ESC}
    \/ /\ Len(read) = 2
       /\ read[1] = ESC
       /\ read[2] # CSI
    \/ /\ Len(read) = 3
       /\ read[1] = ESC
       /\ read[2] = CSI
       /\ read[3] \notin {SP_UP_ARROW, SP_DOWN_ARROW, SP_LEFT_ARROW, SP_RIGHT_ARROW}

\* C16: an unrecognized input (a low control code without a handler, ESC and
\* a byte other than '[', ESC '[' and a non-arrow byte) leaves the line, the
\* cursor, the history and the history cursor as they were, writes nothing,
\* and the session goes on reading.
C16_UnrecognizedIgnored ==
    Unrecognized =>
        /\ NoOp
        /\ printed = <<>>
        /\ m_history = pre.m_history
        /\ m_prev = pre.m_prev
        /\ pc = "input"

C16_Witness ==
    /\ read = <<ESC, CSI, 72>>
    /\ toReturn # <<>>
    /\ cursorPos < Len(toReturn)
    /\ m_history # <<>>

\* ---- C17 ----
\* C17: Backspace or Delete with the cursor at c > 0 removes the character at
\* offset c-1 and nothing else: the line is one shorter, the characters before
\* it keep their place, those after it move one place left, and the cursor is
\* at c-1.
C17_BackspaceRemovesBeforeCursor ==
    (IsBackspace /\ pre.cursorPos > 0) =>
        /\ Len(toReturn) = Len(pre.toReturn) - 1
        /\ cursorPos = pre.cursorPos - 1
        /\ \A i \in 1..Len(toReturn) :
              toReturn[i] = pre.toReturn[IF i < pre.cursorPos THEN i ELSE i + 1]

C17_Witness ==
    /\ IsBackspace
    /\ pre.cursorPos = 1
    /\ Len(pre.toReturn) = 2
    /\ pre.toReturn[1] # pre.toReturn[2]
    /\ toReturn = <<pre.toReturn[2]>>

\* ---- C18 ----
IsCtrlK == read = <<SP_CTRL_K>>

\* C18: Ctrl-K cuts the line down to the characters before the cursor and
\* leaves the cursor where it was, which is then the end of the line; with
\* the cursor already at the end nothing changes and nothing is written.
C18_KillToEnd ==
    IsCtrlK =>
        /\ Len(toReturn) = pre.cursorPos
        /\ \A i \in 1..pre.cursorPos : toReturn[i] = pre.toReturn[i]
        /\ cursorPos = pre.cursorPos
        /\ cursorPos = Len(toReturn)
        /\ (pre.cursorPos = Len(pre.toReturn) => NoOp)

C18_Witness ==
    /\ IsCtrlK
    /\ pre.cursorPos = 1
    /\ Len(pre.toReturn) = 2
    /\ toReturn = <<pre.toReturn[1]>>

\* ---- C19 ----
\* C19: a Tab pressed directly after a Tab changes neither the line nor the
\* cursor: whatever the registered commands and the line, two Tabs in a row
\* leave what one Tab leaves.
C19_TabIdempotent ==
    [][(IsTab /\ read' = <<SP_TAB>>) => (toReturn' = toReturn /\ cursorPos' = cursorPos)]_vars

\* the line "remove" is longer than anything the user types: it was completed
\* by a Tab, and the last event is a further Tab on it
C19_Witness ==
    /\ IsTab
    /\ Len(m_commands) = 2
    /\ pre.toReturn = StrRemove
    /\ pre.cursorPos = Len(StrRemove)
    /\ toReturn = StrRemove
    /\ cursorPos = Len(StrRemove)

\* ---- C20 ----
\* C20: while the history holds entries, m_prev is at one of them (at
\* distance 0 .. size-1 from rbegin(), never at rend()); while it is empty,
\* m_prev has never been assigned, and an ArrowUp or ArrowDown leaves the
\* line, the cursor and m_prev as they were and writes nothing.
C20_HistoryCursorValid ==
    /\ m_history # <<>> => (0 <= m_prev /\ m_prev <= Len(m_history) - 1)
    /\ m_history = <<>> => m_prev = -1
    /\ ((IsUp \/ IsDown) /\ pre.m_history = <<>>) => (NoOp /\ m_prev = pre.m_prev)

\* an ArrowUp with m_prev already at the oldest of three entries
C20_Witness ==
    /\ IsUp
    /\ Len(m_history) = 3
    /\ pre.m_prev = 2
    /\ m_prev = 2
    /\ toReturn = m_history[1]

====
